---- MODULE Spec2Model ----
(***************************************************************************)
(* A model of plaso's extraction front-end                                 *)
(* (plaso/frontend/extraction_frontend.py, class ExtractionFrontend).      *)
(*                                                                         *)
(* Python strings are TLA+ strings; their characters are read with Len,    *)
(* SubSeq and \o.  The Python value None is the value None below, which    *)
(* no string the model draws equals.                                       *)
(***************************************************************************)
EXTENDS Naturals, Sequences, FiniteSets

VARIABLES
  self,    \* the ExtractionFrontend object's attributes
  fs,      \* the file system the storage file path is resolved against
  frame,   \* the running ProcessSources call (arguments, locals, position)
  fn       \* the arguments of the configuration calls made last (Spec,
           \* SpecConfiguration); a helper method applied to drawn arguments
           \* (SpecStorage, SpecPreset)

vars == <<self, fs, frame, fn>>

None == "None"

\* Python truth value of an optional string.
Truthy(v) == v # None /\ v # ""

(***************************************************************************)
(* Strings.                                                                *)
(***************************************************************************)
Char(s, i) == SubSeq(s, i, i)

UpperCase == "ABCDEFGHIJKLMNOPQRSTUVWXYZ"
LowerCase == "abcdefghijklmnopqrstuvwxyz"

\* str.lower() on one character.
LowerChar(c) ==
  IF \E i \in 1..Len(UpperCase) : Char(UpperCase, i) = c
  THEN Char(LowerCase, CHOOSE i \in 1..Len(UpperCase) : Char(UpperCase, i) = c)
  ELSE c

\* str.lower()
RECURSIVE Lower(_)
Lower(s) ==
  IF s = "" THEN "" ELSE LowerChar(Char(s, 1)) \o Lower(SubSeq(s, 2, Len(s)))

\* needle in hay
Contains(hay, needle) ==
  \E i \in 0..Len(hay) :
    /\ i + Len(needle) <= Len(hay)
    /\ SubSeq(hay, i + 1, i + Len(needle)) = needle

\* s.rfind(u'/') + 1: the position of the last slash, 0 when there is none.
RFindSlash(s) ==
  IF \E i \in 1..Len(s) : Char(s, i) = "/"
  THEN CHOOSE i \in 1..Len(s) :
         Char(s, i) = "/" /\ \A j \in (i + 1)..Len(s) : Char(s, j) # "/"
  ELSE 0

\* s.rstrip(u'/')
RECURSIVE RStripSlash(_)
RStripSlash(s) ==
  IF s # "" /\ Char(s, Len(s)) = "/"
  THEN RStripSlash(SubSeq(s, 1, Len(s) - 1))
  ELSE s

\* os.path.dirname (posixpath): everything up to the last slash, with the
\* trailing slashes removed unless the head consists of slashes only.
Dirname(p) ==
  LET head == SubSeq(p, 1, RFindSlash(p))
  IN IF head # "" /\ (\E i \in 1..Len(head) : Char(head, i) # "/")
     THEN RStripSlash(head)
     ELSE head

(***************************************************************************)
(* The file system, as os.path.exists, os.path.isfile and os.access see    *)
(* it: a function from the paths that exist to their kind ("file", "dir",  *)
(* "other") and whether the process may write to them.                     *)
(***************************************************************************)
Exists(f, p) == p \in DOMAIN f
IsFile(f, p) == p \in DOMAIN f /\ f[p].kind = "file"
AccessW(f, p) == p \in DOMAIN f /\ f[p].writable

(***************************************************************************)
(* _CheckStorageFile: the exception it raises (None when it returns) and   *)
(* what it logs.  os.path.exists(None) raises TypeError.                   *)
(***************************************************************************)
AppendWarning == "warning: Appending to an already existing storage file."

CheckStorageFileNoDefaultDir(f, storage_file_path) ==
  IF storage_file_path = None
  THEN [raised |-> "TypeError", log |-> <<>>]
  ELSE IF Exists(f, storage_file_path) /\ ~IsFile(f, storage_file_path)
  THEN [raised |-> "BadConfigOption", log |-> <<>>]
  ELSE LET log == IF Exists(f, storage_file_path) THEN <<AppendWarning>> ELSE <<>>
       IN IF ~AccessW(f, Dirname(storage_file_path))
          THEN [raised |-> "BadConfigOption", log |-> log]
          ELSE [raised |-> None, log |-> log]

_CheckStorageFile(f, storage_file_path) ==
  IF storage_file_path = None
  THEN [raised |-> "TypeError", log |-> <<>>]
  ELSE IF Exists(f, storage_file_path) /\ ~IsFile(f, storage_file_path)
  THEN [raised |-> "BadConfigOption", log |-> <<>>]
  ELSE LET log == IF Exists(f, storage_file_path) THEN <<AppendWarning>> ELSE <<>>
           dirname == IF Dirname(storage_file_path) = ""
                      THEN "."
                      ELSE Dirname(storage_file_path)
       IN IF ~AccessW(f, dirname)
          THEN [raised |-> "BadConfigOption", log |-> log]
          ELSE [raised |-> None, log |-> log]

(***************************************************************************)
(* _GetParserFilterPreset                                                  *)
(***************************************************************************)
OS_LINUX == "Linux"
OS_MACOSX == "MacOSX"
OS_WINDOWS == "Windows"

\* The second rule as an else branch of the first.
GetParserFilterPresetElse(os_guess, os_version) ==
  IF Truthy(os_version)
  THEN LET lowered == Lower(os_version)
       IN IF Contains(lowered, "windows xp") THEN "winxp"
          ELSE IF Contains(lowered, "windows server 2000") THEN "winxp"
          ELSE IF Contains(lowered, "windows server 2003") THEN "winxp"
          ELSE IF Contains(lowered, "windows") THEN "win7"
          ELSE None
  ELSE IF Truthy(os_guess)
  THEN IF os_guess = OS_LINUX THEN "linux"
       ELSE IF os_guess = OS_MACOSX THEN "macosx"
       ELSE IF os_guess = OS_WINDOWS THEN "win7"
       ELSE None
  ELSE None

\* The version matched as given, without lowercasing it.
GetParserFilterPresetCaseSensitive(os_guess, os_version) ==
  LET from_version ==
        IF Truthy(os_version)
        THEN IF Contains(os_version, "windows xp") THEN "winxp"
             ELSE IF Contains(os_version, "windows server 2000") THEN "winxp"
             ELSE IF Contains(os_version, "windows server 2003") THEN "winxp"
             ELSE IF Contains(os_version, "windows") THEN "win7"
             ELSE None
        ELSE None
  IN IF ~Truthy(from_version) /\ Truthy(os_guess)
     THEN IF os_guess = OS_LINUX THEN "linux"
          ELSE IF os_guess = OS_MACOSX THEN "macosx"
          ELSE IF os_guess = OS_WINDOWS THEN "win7"
          ELSE None
     ELSE from_version

_GetParserFilterPreset(os_guess, os_version) ==
  LET from_version ==
        IF Truthy(os_version)
        THEN LET lowered == Lower(os_version)
             IN IF Contains(lowered, "windows xp") THEN "winxp"
                ELSE IF Contains(lowered, "windows server 2000") THEN "winxp"
                ELSE IF Contains(lowered, "windows server 2003") THEN "winxp"
                ELSE IF Contains(lowered, "windows") THEN "win7"
                ELSE None
        ELSE None
  IN IF ~Truthy(from_version) /\ Truthy(os_guess)
     THEN IF os_guess = OS_LINUX THEN "linux"
          ELSE IF os_guess = OS_MACOSX THEN "macosx"
          ELSE IF os_guess = OS_WINDOWS THEN "win7"
          ELSE None
     ELSE from_version


(***************************************************************************)
(* Collaborators whose code is outside this file: the engines and their    *)
(* knowledge base, the parsers manager, the hashers manager, the find      *)
(* specification builder, the session and the storage writer.              *)
(***************************************************************************)

\* A new engine's knowledge base: no facts, time zone UTC.
NewKnowledgeBase ==
  [platform |-> None, osversion |-> None, time_zone_str |-> None,
   timezone |-> "UTC"]

\* The time zone names the knowledge base accepts.
SupportedTimezones == {"UTC", "Europe/Oslo", "Asia/Tokyo"}

\* knowledge_base.SetTimezone: the time zone is set, or ValueError is raised
\* and the knowledge base is left as it was.
KB_SetTimezone(kb, timezone) ==
  IF timezone \in SupportedTimezones
  THEN [raised |-> None, kb |-> [kb EXCEPT !.timezone = timezone]]
  ELSE [raised |-> "ValueError", kb |-> kb]

\* The facts engine.PreprocessSources can leave in the knowledge base.
PreprocessPlatforms == {None, "Linux", "Windows"}
PreprocessOsVersions == {None, "Windows XP Professional"}
PreprocessTimeZones == {None, "Asia/Tokyo", "Mars/Olympus"}

\* How engine.PreprocessSources can end: it returns, or raises IOError, or
\* raises another exception.
PreprocessOutcomes == {None, "IOError", "RuntimeError"}

\* The parsers manager: the presets and parser names it knows.
ParserPresets ==
  [winxp |-> <<"lnk", "prefetch", "winreg", "winreg/appcompatcache">>,
   win7 |-> <<"lnk", "prefetch", "winevtx", "winreg">>,
   linux |-> <<"syslog", "utmp">>,
   macosx |-> <<"asl_log", "plist", "plist/airport">>]

AllParserAndPluginNames ==
  <<"asl_log", "lnk", "plist", "plist/airport", "prefetch", "syslog", "utmp",
    "winevtx", "winreg", "winreg/appcompatcache">>

\* The filter expressions the parsers manager rejects as malformed.
MalformedExpressions == {"bad("}

\* ParsersManager.GetParserAndPluginNames
GetParserAndPluginNames(parser_filter_expression) ==
  IF ~Truthy(parser_filter_expression)
  THEN AllParserAndPluginNames
  ELSE IF parser_filter_expression \in DOMAIN ParserPresets
  THEN ParserPresets[parser_filter_expression]
  ELSE <<>>

\* ParsersManager.GetParsers, as the NAME of each parser class (no plugins).
GetParsers(parser_filter_expression) ==
  SelectSeq(GetParserAndPluginNames(parser_filter_expression),
            LAMBDA name : ~Contains(name, "/"))

\* HashersManager.GetHasherNamesFromString
GetHasherNamesFromString(hasher_names_string) ==
  IF ~Truthy(hasher_names_string) THEN <<>> ELSE <<hasher_names_string>>

\* engine_utils.BuildFindSpecsFromFile
BuildFindSpecsFromFile(filter_file) == "find specs of " \o filter_file

\* What the engine's ProcessSources can return, and what it can raise.
ProcessingStatuses == {"ProcessingStatus: completed", "ProcessingStatus: aborted"}
DispatchErrors == {"SourceScannerError", "UserAbort"}

(***************************************************************************)
(* The front-end object.                                                   *)
(***************************************************************************)
_DEFAULT_PROFILING_SAMPLE_RATE == 1000

SOURCE_TYPE_DIRECTORY == "directory"
SOURCE_TYPE_FILE == "file"
SOURCE_TYPE_STORAGE_MEDIA_DEVICE == "storage media device"
SOURCE_TYPE_STORAGE_MEDIA_IMAGE == "storage media image"

_SOURCE_TYPES_TO_PREPROCESS ==
  {SOURCE_TYPE_DIRECTORY, SOURCE_TYPE_STORAGE_MEDIA_DEVICE,
   SOURCE_TYPE_STORAGE_MEDIA_IMAGE}

\* None where the code holds an object (an engine, a session, a writer, a call).
NoObject == [class |-> "NoneType"]

\* None where the code holds a list.
NoList == <<None>>

\* __init__
SelfInit ==
  [_collection_process |-> None,
   _debug_mode |-> FALSE,
   _enable_profiling |-> FALSE,
   _engine |-> NoObject,
   _filter_expression |-> None,
   _filter_object |-> None,
   _hasher_names |-> <<>>,
   _mount_path |-> None,
   _parser_names |-> NoList,
   _profiling_directory |-> None,
   _profiling_sample_rate |-> _DEFAULT_PROFILING_SAMPLE_RATE,
   _profiling_type |-> "all",
   _use_zeromq |-> TRUE,
   _show_worker_memory_information |-> FALSE,
   _storage_file_path |-> None,
   _text_prepend |-> None]

\* _CreateEngine with the single process engine left at the default
\* sample rate and profiling type.
CreateEngineSingleProcessDefaults(obj, single_process_mode) ==
  IF single_process_mode
  THEN [class |-> "SingleProcessEngine",
        debug_output |-> obj._debug_mode,
        enable_profiling |-> obj._enable_profiling,
        profiling_directory |-> obj._profiling_directory,
        profiling_sample_rate |-> _DEFAULT_PROFILING_SAMPLE_RATE,
        profiling_type |-> "all",
        knowledge_base |-> NewKnowledgeBase]
  ELSE [class |-> "MultiProcessEngine",
        debug_output |-> obj._debug_mode,
        enable_profiling |-> obj._enable_profiling,
        profiling_directory |-> obj._profiling_directory,
        profiling_sample_rate |-> obj._profiling_sample_rate,
        profiling_type |-> obj._profiling_type,
        use_zeromq |-> obj._use_zeromq,
        knowledge_base |-> NewKnowledgeBase]

\* _CreateEngine
_CreateEngine(obj, single_process_mode) ==
  IF single_process_mode
  THEN [class |-> "SingleProcessEngine",
        debug_output |-> obj._debug_mode,
        enable_profiling |-> obj._enable_profiling,
        profiling_directory |-> obj._profiling_directory,
        profiling_sample_rate |-> obj._profiling_sample_rate,
        profiling_type |-> obj._profiling_type,
        knowledge_base |-> NewKnowledgeBase]
  ELSE [class |-> "MultiProcessEngine",
        debug_output |-> obj._debug_mode,
        enable_profiling |-> obj._enable_profiling,
        profiling_directory |-> obj._profiling_directory,
        profiling_sample_rate |-> obj._profiling_sample_rate,
        profiling_type |-> obj._profiling_type,
        use_zeromq |-> obj._use_zeromq,
        knowledge_base |-> NewKnowledgeBase]

\* The session described by the caller's expression instead of the one used.
CreateSessionCallersExpression(obj, identifier, filter_file, parser_filter_expression) ==
  [class |-> "Session",
   identifier |-> identifier,
   command_line_arguments |-> None,
   enabled_parser_names |->
     GetParserAndPluginNames(frame.args.parser_filter_expression),
   filter_expression |-> obj._filter_expression,
   filter_file |-> filter_file,
   debug_mode |-> obj._debug_mode,
   parser_filter_expression |-> frame.args.parser_filter_expression,
   preferred_encoding |-> "utf-8",
   preferred_year |-> None]

\* _CreateSession, given the identifier sessions.Session() drew.
_CreateSession(obj, identifier, filter_file, parser_filter_expression) ==
  [class |-> "Session",
   identifier |-> identifier,
   command_line_arguments |-> None,
   enabled_parser_names |-> GetParserAndPluginNames(parser_filter_expression),
   filter_expression |-> obj._filter_expression,
   filter_file |-> filter_file,
   debug_mode |-> obj._debug_mode,
   parser_filter_expression |-> parser_filter_expression,
   preferred_encoding |-> "utf-8",
   preferred_year |-> None]

\* The time zone _SetTimezone passes to the knowledge base.
DefaultTimezoneCallerFirst(kb, timezone) ==
  IF Truthy(timezone) THEN timezone
  ELSE IF Truthy(kb.time_zone_str) THEN kb.time_zone_str
  ELSE "UTC"

DefaultTimezone(kb, timezone) ==
  LET default_timezone ==
        IF Truthy(kb.time_zone_str) THEN kb.time_zone_str ELSE timezone
  IN IF ~Truthy(default_timezone) THEN "UTC" ELSE default_timezone

\* _SetTimezone with an unsupported time zone falling through to the next
\* one: the knowledge base's, then the caller's, then UTC.
SetTimezoneFallThrough(kb, timezone) ==
  LET candidates ==
        (IF Truthy(kb.time_zone_str) THEN <<kb.time_zone_str>> ELSE <<>>)
          \o (IF Truthy(timezone) THEN <<timezone>> ELSE <<>>) \o <<"UTC">>
      accepted ==
        {i \in 1..Len(candidates) :
           KB_SetTimezone(kb, candidates[i]).raised = None}
      last == CHOOSE i \in accepted : \A j \in accepted : i <= j
  IN [attempts |-> SubSeq(candidates, 1, last),
      raised |-> None,
      kb |-> KB_SetTimezone(kb, candidates[last]).kb,
      log |-> <<"info: Setting timezone to: " \o candidates[last]>>]

\* _SetTimezone also storing the time zone it chose as the knowledge base's
\* time_zone_str.
SetTimezoneStoresFact(kb, timezone) ==
  LET default_timezone == DefaultTimezone(kb, timezone)
      set == KB_SetTimezone(kb, default_timezone)
  IN [attempts |-> <<default_timezone>>,
      raised |-> set.raised,
      kb |-> [set.kb EXCEPT !.time_zone_str = default_timezone],
      log |-> <<"info: Setting timezone to: " \o default_timezone>>]

\* _SetTimezone: the time zones passed to knowledge_base.SetTimezone, the
\* exception of the last attempt, the knowledge base afterwards and what is
\* logged.
_SetTimezone(kb, timezone) ==
  LET default_timezone == DefaultTimezone(kb, timezone)
      set == KB_SetTimezone(kb, default_timezone)
  IN [attempts |-> <<default_timezone>>,
      raised |-> set.raised,
      kb |-> set.kb,
      log |-> <<"info: Setting timezone to: " \o default_timezone>>
                \o (IF set.raised = None THEN <<>>
                    ELSE <<"warning: Unsupported time zone: "
                             \o default_timezone \o ", defaulting to "
                             \o kb.timezone>>)]

\* _SetTimezone, lines 239-244: where the call goes after
\* knowledge_base.SetTimezone; its ValueError is caught.
AfterSetTimezoneUncaught(raised) ==
  IF raised = None THEN "find_specs" ELSE "raised"

\* The call going from _SetTimezone straight to _CreateSession.
AfterSetTimezoneToSession(raised) == "session"

AfterSetTimezone(raised) == "find_specs"

\* ProcessSources, lines 426-429: where the call goes after _CreateSession,
\* whose exception nothing catches.
AfterCreateSessionAbsorbed(raised) == "storage_writer"

AfterCreateSession(raised) ==
  IF raised = None THEN "storage_writer" ELSE "raised"

\* ProcessSources, lines 436-470: the exceptions of the engine's
\* ProcessSources that leave the call; nothing catches them.
DispatchRaisesAbsorbed(outcome) == FALSE

DispatchRaises(outcome) == outcome \in DispatchErrors

\* ProcessSources, line 472: the value returned, given the processing
\* status the engine returned.
ReturnValueNone(processing_status) == None

ReturnValue(processing_status) == processing_status

\* ProcessSources, lines 384-386: the mode the engine is created in.
SingleProcessModeAsRequested(source_type, single_process_mode) ==
  single_process_mode

SingleProcessMode(source_type, single_process_mode) ==
  IF source_type = SOURCE_TYPE_FILE THEN TRUE ELSE single_process_mode

\* ProcessSources, line 392: whether the sources are preprocessed.
PreprocessRequiredDirectoryOnly(source_type, force_preprocessing) ==
  force_preprocessing \/ source_type = SOURCE_TYPE_DIRECTORY

PreprocessRequired(source_type, force_preprocessing) ==
  force_preprocessing \/ source_type \in _SOURCE_TYPES_TO_PREPROCESS

\* ProcessSources, lines 395-400: the parser filter expression used.
ResolveParserFilterExpressionAlwaysDerive(kb, parser_filter_expression) ==
  [derived |-> TRUE,
   expression |-> _GetParserFilterPreset(kb.platform, kb.osversion)]

ResolveParserFilterExpression(kb, parser_filter_expression) ==
  IF ~Truthy(parser_filter_expression)
  THEN [derived |-> TRUE,
        expression |-> _GetParserFilterPreset(kb.platform, kb.osversion)]
  ELSE [derived |-> FALSE, expression |-> parser_filter_expression]

\* ProcessSources, line 382: where the call goes after _CheckStorageFile,
\* whose exception nothing catches.
AfterCheckStorageFileCaught(raised) == "create_engine"

AfterCheckStorageFile(raised) ==
  IF raised = None THEN "create_engine" ELSE "raised"

\* _PreprocessSources, lines 200-207: the exceptions of the engine's
\* PreprocessSources that leave it; IOError is caught.
PreprocessingRaisesUncaught(outcome) == outcome # None

\* Every exception of the engine's PreprocessSources caught.
PreprocessingRaisesNothing(outcome) == FALSE

PreprocessingRaises(outcome) == outcome \notin {None, "IOError"}

(***************************************************************************)
(* What the model draws from.                                              *)
(***************************************************************************)

\* A file system: the working directory and the root exist; the directory
\* "cases" is absent, a directory (writable or not) or a writable regular
\* file; "out.plaso" in the working directory and in "cases" is absent, a
\* regular file, a directory or a special file.
MkFS(cwd_writable, root_writable, cases, in_cwd, in_cases) ==
  LET entries ==
        {[path |-> ".", kind |-> "dir", writable |-> cwd_writable],
         [path |-> "/", kind |-> "dir", writable |-> root_writable]}
        \cup (IF cases = "absent" THEN {}
              ELSE {[path |-> "cases",
                     kind |-> IF cases = "file_w" THEN "file" ELSE "dir",
                     writable |-> cases # "dir_ro"]})
        \cup (IF in_cwd = "absent" THEN {}
              ELSE {[path |-> "out.plaso", kind |-> in_cwd, writable |-> TRUE]})
        \cup (IF in_cases = "absent" \/ cases \notin {"dir_w", "dir_ro"} THEN {}
              ELSE {[path |-> "cases/out.plaso", kind |-> in_cases,
                     writable |-> TRUE]})
  IN [p \in {e.path : e \in entries} |->
        LET e == CHOOSE e \in entries : e.path = p
        IN [kind |-> e.kind, writable |-> e.writable]]

TargetStates == {"absent", "file", "dir", "other"}

FileSystems ==
  {MkFS(c.cwd_writable, c.root_writable, c.cases, c.in_cwd, c.in_cases) :
     c \in [cwd_writable : BOOLEAN, root_writable : BOOLEAN,
            cases : {"absent", "dir_w", "dir_ro", "file_w"},
            in_cwd : TargetStates, in_cases : TargetStates]}

\* The file system of Spec: "out.plaso" can be created, "cases/out.plaso" is
\* an older storage file, "cases" is a directory, the root is read-only.
MainFileSystem == MkFS(TRUE, FALSE, "dir_w", "absent", "file")

\* The paths SetStorageFile is called with.
StoragePaths == {"out.plaso", "cases/out.plaso", "cases", "/out.plaso"}

SourceTypes ==
  {SOURCE_TYPE_FILE, SOURCE_TYPE_DIRECTORY, SOURCE_TYPE_STORAGE_MEDIA_DEVICE,
   SOURCE_TYPE_STORAGE_MEDIA_IMAGE, "other"}

\* The optional arguments of ProcessSources the model varies, with the
\* defaults of its signature; the remaining ones keep their defaults.
KeywordDefaults ==
  [force_preprocessing |-> FALSE,
   single_process_mode |-> FALSE,
   parser_filter_expression |-> None,
   timezone |-> "UTC",
   filter_file |-> None,
   number_of_extraction_workers |-> 0]

KeywordValues ==
  [force_preprocessing : BOOLEAN,
   single_process_mode : BOOLEAN,
   parser_filter_expression : {None, "", "linux", "bad("},
   timezone : {"UTC", None, "Europe/Oslo", "Mars/Olympus"},
   filter_file : {None, "filter.txt"},
   number_of_extraction_workers : {0, 3}]

\* A call passes at most MaxKeywords optional arguments that differ from
\* their defaults.
MaxKeywords == 2

Keywords ==
  {k \in KeywordValues :
     Cardinality({n \in DOMAIN KeywordDefaults : k[n] # KeywordDefaults[n]})
       <= MaxKeywords}

(***************************************************************************)
(* The state after construction.  A front-end object is configured and     *)
(* then processes its sources once: frame is the one ProcessSources call.  *)
(***************************************************************************)
NoCall == [pc |-> "idle"]

\* What the caller has asked for before any configuration call: the values
\* __init__ sets.
NotConfigured ==
  [op |-> "configuration",
   enable_debug |-> FALSE,
   show_memory |-> FALSE,
   storage_file_path |-> None,
   text_prepend |-> None,
   use_zeromq |-> TRUE,
   profiling |-> FALSE,
   profiling_directory |-> None,
   profiling_sample_rate |-> _DEFAULT_PROFILING_SAMPLE_RATE,
   profiling_type |-> "all"]

Init ==
  /\ self = SelfInit
  /\ fs = MainFileSystem
  /\ frame = NoCall
  /\ fn = NotConfigured

\* SetStorageFile
SetStorageFile(storage_file_path) ==
  /\ frame.pc = "idle"
  /\ self' = [self EXCEPT !._storage_file_path = storage_file_path]
  /\ fn' = [fn EXCEPT !.storage_file_path = storage_file_path]
  /\ UNCHANGED <<fs, frame>>

\* SetDebugMode
SetDebugMode(enable_debug) ==
  /\ frame.pc = "idle"
  /\ self' = [self EXCEPT !._debug_mode = enable_debug]
  /\ fn' = [fn EXCEPT !.enable_debug = enable_debug]
  /\ UNCHANGED <<fs, frame>>

\* SetShowMemoryInformation
SetShowMemoryInformation(show_memory) ==
  /\ frame.pc = "idle"
  /\ self' = [self EXCEPT !._show_worker_memory_information = show_memory]
  /\ fn' = [fn EXCEPT !.show_memory = show_memory]
  /\ UNCHANGED <<fs, frame>>

\* SetTextPrepend
SetTextPrepend(text_prepend) ==
  /\ frame.pc = "idle"
  /\ self' = [self EXCEPT !._text_prepend = text_prepend]
  /\ fn' = [fn EXCEPT !.text_prepend = text_prepend]
  /\ UNCHANGED <<fs, frame>>

\* SetUseZeroMQ
SetUseZeroMQ(use_zeromq) ==
  /\ frame.pc = "idle"
  /\ self' = [self EXCEPT !._use_zeromq = use_zeromq]
  /\ fn' = [fn EXCEPT !.use_zeromq = use_zeromq]
  /\ UNCHANGED <<fs, frame>>

\* EnableProfiling
EnableProfiling(profiling_directory, profiling_sample_rate, profiling_type) ==
  /\ frame.pc = "idle"
  /\ self' = [self EXCEPT !._enable_profiling = TRUE,
                          !._profiling_directory = profiling_directory,
                          !._profiling_sample_rate = profiling_sample_rate,
                          !._profiling_type = profiling_type]
  /\ fn' = [fn EXCEPT !.profiling = TRUE,
                      !.profiling_directory = profiling_directory,
                      !.profiling_sample_rate = profiling_sample_rate,
                      !.profiling_type = profiling_type]
  /\ UNCHANGED <<fs, frame>>

\* DisableProfiling
DisableProfiling ==
  /\ frame.pc = "idle"
  /\ self' = [self EXCEPT !._enable_profiling = FALSE]
  /\ fn' = [fn EXCEPT !.profiling = FALSE]
  /\ UNCHANGED <<fs, frame>>

Raise(exception) == [frame EXCEPT !.pc = "raised", !.raised = exception]

\* ProcessSources, line 382: the call starts and checks the storage file.
ProcessSources(source_type, keywords) ==
  /\ frame.pc = "idle"
  /\ LET check == _CheckStorageFile(fs, self._storage_file_path)
     IN frame' =
          [pc |-> AfterCheckStorageFile(check.raised),
           source_type |-> source_type,
           args |-> keywords,
           single_process_mode |-> keywords.single_process_mode,
           parser_filter_expression |-> keywords.parser_filter_expression,
           filter_find_specs |-> None,
           session |-> NoObject,
           storage_writer |-> NoObject,
           processing_status |-> None,
           preprocessing |-> "not invoked",
           set_timezone |-> <<>>,
           dispatch |-> NoObject,
           engine_outcome |-> None,
           raised |-> check.raised,
           result |-> None,
           trace |-> <<"_CheckStorageFile">>,
           log |-> check.log]
  /\ UNCHANGED <<self, fs, fn>>

\* ProcessSources, lines 384-388: the mode is settled and the engine created.
CreateEngine ==
  /\ frame.pc = "create_engine"
  /\ LET single_process_mode ==
           SingleProcessMode(frame.source_type, frame.single_process_mode)
     IN /\ self' = [self EXCEPT !._engine = _CreateEngine(self, single_process_mode)]
        /\ frame' = [frame EXCEPT !.pc = "preprocess",
                                  !.single_process_mode = single_process_mode,
                                  !.trace = @ \o <<"_CreateEngine">>]
  /\ UNCHANGED <<fs, fn>>

\* ProcessSources, lines 392-393, and _PreprocessSources: the engine
\* preprocesses the sources, leaving facts in its knowledge base; IOError is
\* logged and dropped, any other exception leaves ProcessSources.
PreprocessSources ==
  /\ frame.pc = "preprocess"
  /\ PreprocessRequired(frame.source_type, frame.args.force_preprocessing)
  /\ \E platform \in PreprocessPlatforms, osversion \in PreprocessOsVersions,
        time_zone_str \in PreprocessTimeZones, outcome \in PreprocessOutcomes :
       /\ self' = [self EXCEPT !._engine.knowledge_base =
                     [@ EXCEPT !.platform = platform, !.osversion = osversion,
                               !.time_zone_str = time_zone_str]]
       /\ frame' =
            [frame EXCEPT
               !.pc = IF PreprocessingRaises(outcome) THEN "raised" ELSE "resolve",
               !.raised = IF PreprocessingRaises(outcome) THEN outcome ELSE None,
               !.preprocessing = IF outcome = None THEN "done" ELSE outcome,
               !.trace = @ \o <<"_PreprocessSources">>,
               !.log = IF outcome = "IOError"
                       THEN @ \o <<"error: Unable to preprocess with error: IOError">>
                       ELSE @]
  /\ UNCHANGED <<fs, fn>>

\* ProcessSources, line 392, when the condition is false.
SkipPreprocessing ==
  /\ frame.pc = "preprocess"
  /\ ~PreprocessRequired(frame.source_type, frame.args.force_preprocessing)
  /\ frame' = [frame EXCEPT !.pc = "resolve"]
  /\ UNCHANGED <<self, fs, fn>>

\* ProcessSources, lines 395-415: the parser filter expression is derived
\* unless the caller gave one; the parser and hasher names are listed.
ResolveParserFilter ==
  /\ frame.pc = "resolve"
  /\ LET kb == self._engine.knowledge_base
         resolved ==
           ResolveParserFilterExpression(kb, frame.parser_filter_expression)
         derive == resolved.derived
         expression == resolved.expression
     IN /\ frame' =
             [frame EXCEPT
                !.pc = "timezone",
                !.parser_filter_expression = expression,
                !.trace = @ \o (IF derive THEN <<"_GetParserFilterPreset">> ELSE <<>>)
                            \o <<"GetParsers", "GetHasherNamesFromString">>,
                !.log = IF derive /\ Truthy(expression)
                        THEN @ \o <<"info: Parser filter expression changed to: "
                                      \o expression>>
                        ELSE @]
        /\ self' = [self EXCEPT !._parser_names = GetParsers(expression),
                                !._hasher_names = GetHasherNamesFromString(None)]
  /\ UNCHANGED <<fs, fn>>

\* ProcessSources, line 417, and _SetTimezone.
SetTimezone ==
  /\ frame.pc = "timezone"
  /\ LET set == _SetTimezone(self._engine.knowledge_base, frame.args.timezone)
         pc == AfterSetTimezone(set.raised)
     IN /\ self' = [self EXCEPT !._engine.knowledge_base = set.kb]
        /\ frame' =
             [frame EXCEPT
                !.pc = pc,
                !.raised = IF pc = "raised" THEN set.raised ELSE None,
                !.set_timezone = @ \o set.attempts,
                !.trace = @ \o <<"_SetTimezone">>,
                !.log = @ \o set.log]
  /\ UNCHANGED <<fs, fn>>

\* ProcessSources, lines 419-424.
BuildFindSpecs ==
  /\ frame.pc = "find_specs"
  /\ frame' =
       [frame EXCEPT
          !.pc = "session",
          !.filter_find_specs = IF Truthy(frame.args.filter_file)
                                THEN BuildFindSpecsFromFile(frame.args.filter_file)
                                ELSE None,
          !.trace = IF Truthy(frame.args.filter_file)
                    THEN @ \o <<"BuildFindSpecsFromFile">>
                    ELSE @]
  /\ UNCHANGED <<self, fs, fn>>

\* ProcessSources, lines 426-429: the session is created, unless the parsers
\* manager rejects the expression.
CreateSession ==
  /\ frame.pc = "session"
  /\ LET raised == IF frame.parser_filter_expression \in MalformedExpressions
                   THEN "BadConfigOption"
                   ELSE None
     IN frame' =
          IF AfterCreateSession(raised) = "raised"
          THEN [Raise(raised) EXCEPT !.trace = @ \o <<"_CreateSession">>]
          ELSE [frame EXCEPT
                  !.pc = AfterCreateSession(raised),
                  !.session =
                    IF raised = None
                    THEN _CreateSession(self, "session 1", frame.args.filter_file,
                                        frame.parser_filter_expression)
                    ELSE NoObject,
                  !.trace = @ \o <<"_CreateSession">>]
  /\ UNCHANGED <<self, fs, fn>>

\* ProcessSources, lines 433-434.
CreateStorageWriter ==
  /\ frame.pc = "storage_writer"
  /\ frame' =
       [frame EXCEPT
          !.pc = "dispatch",
          !.storage_writer = [class |-> "ZIPStorageFileWriter",
                              session |-> frame.session,
                              path |-> self._storage_file_path],
          !.trace = @ \o <<"ZIPStorageFileWriter">>]
  /\ UNCHANGED <<self, fs, fn>>

\* The call of the engine's ProcessSources in the form of the mode.
DispatchCall ==
  IF frame.single_process_mode
  THEN [form |-> "single process",
        engine |-> self._engine.class,
        storage_writer |-> frame.storage_writer,
        filter_find_specs |-> frame.filter_find_specs,
        filter_object |-> self._filter_object,
        mount_path |-> self._mount_path,
        parser_filter_expression |-> frame.parser_filter_expression,
        text_prepend |-> self._text_prepend]
  ELSE [form |-> "multi process",
        engine |-> self._engine.class,
        session_identifier |-> frame.session.identifier,
        storage_writer |-> frame.storage_writer,
        filter_find_specs |-> frame.filter_find_specs,
        filter_object |-> self._filter_object,
        mount_path |-> self._mount_path,
        number_of_worker_processes |-> frame.args.number_of_extraction_workers,
        parser_filter_expression |-> frame.parser_filter_expression,
        show_memory_usage |-> self._show_worker_memory_information,
        text_prepend |-> self._text_prepend]

\* ProcessSources, lines 436-470: the engine processes the sources and
\* returns a processing status, or raises.
Dispatch ==
  /\ frame.pc = "dispatch"
  /\ \E outcome \in ProcessingStatuses \cup DispatchErrors :
       frame' =
         [frame EXCEPT
            !.pc = IF DispatchRaises(outcome) THEN "raised" ELSE "return",
            !.raised = IF DispatchRaises(outcome) THEN outcome ELSE None,
            !.processing_status = IF outcome \in DispatchErrors THEN None ELSE outcome,
            !.engine_outcome = outcome,
            !.dispatch = DispatchCall,
            !.trace = @ \o <<"engine.ProcessSources">>]
  /\ UNCHANGED <<self, fs, fn>>

\* ProcessSources, line 472.
Return ==
  /\ frame.pc = "return"
  /\ frame' = [frame EXCEPT !.pc = "returned",
                            !.result = ReturnValue(frame.processing_status)]
  /\ UNCHANGED <<self, fs, fn>>

Next ==
  \/ \E storage_file_path \in StoragePaths : SetStorageFile(storage_file_path)
  \/ \E source_type \in SourceTypes, keywords \in Keywords :
       ProcessSources(source_type, keywords)
  \/ CreateEngine
  \/ PreprocessSources
  \/ SkipPreprocessing
  \/ ResolveParserFilter
  \/ SetTimezone
  \/ BuildFindSpecs
  \/ CreateSession
  \/ CreateStorageWriter
  \/ Dispatch
  \/ Return

Spec == Init /\ [][Next]_vars

(***************************************************************************)
(* The configuration calls: a front-end object is configured by any        *)
(* sequence of them and then processes its sources once, with one of the   *)
(* calls of ConfigurationCalls.                                            *)
(***************************************************************************)

\* The values the configuration calls are made with.
ConfigurationStoragePaths == {"out.plaso", "cases"}
TextPrepends == {"case 7: "}
ProfilingDirectories == {None, "prof"}
ProfilingSampleRates == {_DEFAULT_PROFILING_SAMPLE_RATE, 250}
ProfilingTypes == {"all", "memory"}

\* The ProcessSources calls made after them: a file, a directory and another
\* source, with the defaults of the signature or in single process mode.
ConfigurationCalls ==
  {[source_type |-> source_type, keywords |-> keywords] :
     source_type \in {SOURCE_TYPE_FILE, SOURCE_TYPE_DIRECTORY, "other"},
     keywords \in {KeywordDefaults,
                   [KeywordDefaults EXCEPT !.single_process_mode = TRUE]}}

NextConfiguration ==
  \/ \E storage_file_path \in ConfigurationStoragePaths :
       SetStorageFile(storage_file_path)
  \/ \E enable_debug \in BOOLEAN : SetDebugMode(enable_debug)
  \/ \E show_memory \in BOOLEAN : SetShowMemoryInformation(show_memory)
  \/ \E text_prepend \in TextPrepends : SetTextPrepend(text_prepend)
  \/ \E use_zeromq \in BOOLEAN : SetUseZeroMQ(use_zeromq)
  \/ \E profiling_directory \in ProfilingDirectories,
        profiling_sample_rate \in ProfilingSampleRates,
        profiling_type \in ProfilingTypes :
       EnableProfiling(profiling_directory, profiling_sample_rate,
                       profiling_type)
  \/ DisableProfiling
  \/ \E call \in ConfigurationCalls :
       ProcessSources(call.source_type, call.keywords)
  \/ CreateEngine
  \/ PreprocessSources
  \/ SkipPreprocessing
  \/ ResolveParserFilter
  \/ SetTimezone
  \/ BuildFindSpecs
  \/ CreateSession
  \/ CreateStorageWriter
  \/ Dispatch
  \/ Return

SpecConfiguration == Init /\ [][NextConfiguration]_vars

(***************************************************************************)
(* _CheckStorageFile on its own: every path below against every file       *)
(* system of FileSystems.                                                  *)
(***************************************************************************)

\* os.path.join of a directory part and a file name.
JoinPath(directory, name) ==
  IF directory = "" THEN name
  ELSE IF Char(directory, Len(directory)) = "/" THEN directory \o name
  ELSE directory \o "/" \o name

\* The directory parts of the paths checked; "" is a path without one.
DirectoryParts == {"", "cases", "/", "cases/2016"}

InitStorage ==
  /\ self = SelfInit
  /\ fs \in FileSystems
  /\ frame = NoCall
  /\ \/ \E directory \in DirectoryParts :
          fn = [op |-> "_CheckStorageFile", directory |-> directory,
                path |-> JoinPath(directory, "out.plaso"), done |-> FALSE,
                raised |-> None, log |-> <<>>]
     \/ fn = [op |-> "_CheckStorageFile", directory |-> None, path |-> None,
              done |-> FALSE, raised |-> None, log |-> <<>>]

ApplyCheckStorageFile ==
  /\ fn.op = "_CheckStorageFile"
  /\ ~fn.done
  /\ LET check == _CheckStorageFile(fs, fn.path)
     IN fn' = [fn EXCEPT !.done = TRUE, !.raised = check.raised, !.log = check.log]
  /\ UNCHANGED <<self, fs, frame>>

SpecStorage == InitStorage /\ [][ApplyCheckStorageFile]_vars

(***************************************************************************)
(* _GetParserFilterPreset on its own: every operating system guess below   *)
(* with every version string below.                                        *)
(***************************************************************************)
OsGuesses == {None, "", OS_LINUX, OS_MACOSX, OS_WINDOWS, "Unknown"}

\* Version strings that hold "windows xp", "windows server 2000" or
\* "windows server 2003" in some letter case.
WinXPVersions ==
  {"Windows XP Professional", "WINDOWS XP", "Microsoft windows xp",
   "Windows Server 2000", "windows server 2000 sp4",
   "Windows Server 2003 R2", "WINDOWS SERVER 2003"}

\* Version strings that hold "windows" in some letter case and none of those.
OtherWindowsVersions ==
  {"Windows 10", "Windows 7 Ultimate", "WINDOWS", "Windows Server 2008 R2",
   "Windows  XP", "Microsoft Windows Server 2012"}

\* Version strings without "windows".
NonWindowsVersions ==
  {"Ubuntu 16.04", "Mac OS X 10.11", "Window XP", "XP", "Server 2003"}

EmptyVersions == {None, ""}

OsVersions ==
  WinXPVersions \cup OtherWindowsVersions \cup NonWindowsVersions
    \cup EmptyVersions

InitPreset ==
  /\ self = SelfInit
  /\ fs = MainFileSystem
  /\ frame = NoCall
  /\ \E os_guess \in OsGuesses, os_version \in OsVersions :
       fn = [op |-> "_GetParserFilterPreset", os_guess |-> os_guess,
             os_version |-> os_version, done |-> FALSE, preset |-> None]

ApplyGetParserFilterPreset ==
  /\ fn.op = "_GetParserFilterPreset"
  /\ ~fn.done
  /\ fn' = [fn EXCEPT !.done = TRUE,
                      !.preset = _GetParserFilterPreset(fn.os_guess, fn.os_version)]
  /\ UNCHANGED <<self, fs, frame>>

SpecPreset == InitPreset /\ [][ApplyGetParserFilterPreset]_vars

(***************************************************************************)
(* Properties.                                                             *)
(***************************************************************************)

\* The directory a checked path lies in: "." when it has no directory part.
ContainingDirectory == IF fn.directory = "" THEN "." ELSE fn.directory

\* C1: _CheckStorageFile raises BadConfigOption exactly when the path
\* exists and is not a regular file, or its directory ("." without a
\* directory part) is not writable; it raises nothing else; in a writable
\* directory a path that does not exist passes and logs nothing, and a
\* regular file passes and logs only the append warning.
C1_CheckStorageFile ==
  (fn.done /\ fn.path # None) =>
    /\ fn.raised \in {None, "BadConfigOption"}
    /\ fn.raised = "BadConfigOption" <=>
         \/ Exists(fs, fn.path) /\ ~IsFile(fs, fn.path)
         \/ ~AccessW(fs, ContainingDirectory)
    /\ (AccessW(fs, ContainingDirectory) /\ ~Exists(fs, fn.path)) =>
         (fn.raised = None /\ fn.log = <<>>)
    /\ (AccessW(fs, ContainingDirectory) /\ IsFile(fs, fn.path)) =>
         (fn.raised = None /\ fn.log = <<AppendWarning>>)

\* An older storage file in the writable working directory passed the check
\* with the append warning.
C1_Witness ==
  /\ fn.op = "_CheckStorageFile"
  /\ fn.done
  /\ fn.path = "out.plaso"
  /\ IsFile(fs, "out.plaso")
  /\ AccessW(fs, ".")
  /\ fn.raised = None
  /\ fn.log = <<AppendWarning>>

\* C3: the preset is one of winxp, win7, linux, macosx and None; a version
\* holding "windows xp", "windows server 2000" or "windows server 2003" in
\* any letter case gives winxp, another version holding "windows" gives
\* win7; without a version the guess Linux gives linux, MacOSX macosx and
\* Windows win7; without a version and a guess there is no preset.
C3_PresetTable ==
  fn.done =>
    /\ fn.preset \in {"winxp", "win7", "linux", "macosx", None}
    /\ fn.os_version \in WinXPVersions => fn.preset = "winxp"
    /\ fn.os_version \in OtherWindowsVersions => fn.preset = "win7"
    /\ fn.os_version \in EmptyVersions =>
         /\ fn.os_guess = "Linux" => fn.preset = "linux"
         /\ fn.os_guess = "MacOSX" => fn.preset = "macosx"
         /\ fn.os_guess = "Windows" => fn.preset = "win7"
         /\ fn.os_guess \in {None, ""} => fn.preset = None

\* An upper-case Windows Server 2003 version resolved to winxp.
C3_Witness ==
  /\ fn.op = "_GetParserFilterPreset"
  /\ fn.done
  /\ fn.os_version = "WINDOWS SERVER 2003"
  /\ fn.os_guess = "Linux"
  /\ fn.preset = "winxp"

\* The preset the guess alone stands for.
PresetOfGuess(os_guess) ==
  IF os_guess = "Linux" THEN "linux"
  ELSE IF os_guess = "MacOSX" THEN "macosx"
  ELSE IF os_guess = "Windows" THEN "win7"
  ELSE None

\* C4 as claimed: with a version that is not empty the guess plays no part,
\* so the preset is the one the version rule gives: winxp, win7, or none.
C4_GuessOnlyWithoutVersion ==
  (fn.done /\ fn.os_version \notin EmptyVersions) =>
    fn.preset = (IF fn.os_version \in WinXPVersions THEN "winxp"
                 ELSE IF fn.os_version \in OtherWindowsVersions THEN "win7"
                 ELSE None)

\* C4 as amended: the guess plays no part when the version holds "windows"
\* in some letter case; for every other version, empty or not, the preset is
\* the one the guess stands for.
C4_GuessWhenVersionGivesNoPreset ==
  fn.done =>
    /\ fn.os_version \in WinXPVersions => fn.preset = "winxp"
    /\ fn.os_version \in OtherWindowsVersions => fn.preset = "win7"
    /\ fn.os_version \in NonWindowsVersions \cup EmptyVersions =>
         fn.preset = PresetOfGuess(fn.os_guess)

\* A version without "windows" left the choice to the guess.
C4_Witness ==
  /\ fn.op = "_GetParserFilterPreset"
  /\ fn.done
  /\ fn.os_version = "Ubuntu 16.04"
  /\ fn.os_guess = "Linux"
  /\ fn.preset = "linux"

\* A ProcessSources call was made.
Called == frame.pc # "idle"

\* The call ended: it returned or raised.
Ended == frame.pc \in {"returned", "raised"}

InTrace(step) == \E i \in 1..Len(frame.trace) : frame.trace[i] = step

Times(step) == Cardinality({i \in 1..Len(frame.trace) : frame.trace[i] = step})

\* Both steps were taken, the first before the second.
Precedes(first, second) ==
  \E i, j \in 1..Len(frame.trace) :
    i < j /\ frame.trace[i] = first /\ frame.trace[j] = second

\* The storage file the front-end is set to cannot be used: there is none,
\* or it exists and is not a regular file, or its directory is not writable.
StorageFileUnusable ==
  \/ self._storage_file_path = None
  \/ /\ Exists(fs, self._storage_file_path)
     /\ ~IsFile(fs, self._storage_file_path)
  \/ ~AccessW(fs, IF Dirname(self._storage_file_path) = ""
                  THEN "."
                  ELSE Dirname(self._storage_file_path))

\* C2: a call made with an unusable storage file has raised in its first
\* step: there is no engine, and the call has taken no step but the check:
\* no preprocessing, no preset, no time zone, no session, no storage
\* writer, no dispatch.
C2_CheckFailureAborts ==
  (Called /\ StorageFileUnusable) =>
    /\ frame.pc = "raised"
    /\ frame.raised \in {"BadConfigOption", "TypeError"}
    /\ frame.trace = <<"_CheckStorageFile">>
    /\ self._engine = NoObject
    /\ frame.preprocessing = "not invoked"
    /\ frame.set_timezone = <<>>
    /\ frame.session = NoObject
    /\ frame.storage_writer = NoObject
    /\ frame.dispatch = NoObject

\* The call was made with a directory as the storage file and raised.
C2_Witness ==
  /\ Called
  /\ self._storage_file_path = "cases"
  /\ frame.pc = "raised"
  /\ frame.raised = "BadConfigOption"
  /\ self._engine = NoObject

\* C5: once the engine is created it is the single process engine exactly
\* when the source is a file or the caller asked for single process mode,
\* and the multi process engine otherwise; the dispatch call has the form
\* of that engine, the multi process form carrying the session identifier
\* and the number of workers the caller gave.
C5_EngineMode ==
  (Called /\ InTrace("_CreateEngine")) =>
    LET single == frame.source_type = "file" \/ frame.args.single_process_mode
    IN /\ self._engine.class =
            (IF single THEN "SingleProcessEngine" ELSE "MultiProcessEngine")
       /\ frame.dispatch # NoObject =>
            /\ frame.dispatch.engine = self._engine.class
            /\ frame.dispatch.form =
                 (IF single THEN "single process" ELSE "multi process")
            /\ ~single =>
                 /\ frame.dispatch.session_identifier = frame.session.identifier
                 /\ frame.dispatch.number_of_worker_processes =
                      frame.args.number_of_extraction_workers

\* A file was processed by the single process engine though the caller
\* asked for three workers and not for single process mode.
C5_Witness ==
  /\ frame.pc = "returned"
  /\ frame.source_type = "file"
  /\ ~frame.args.single_process_mode
  /\ frame.args.number_of_extraction_workers = 3
  /\ self._engine.class = "SingleProcessEngine"
  /\ frame.dispatch.form = "single process"

\* C6: a call past its preprocessing step has invoked preprocessing once
\* when it was forced or the source is a directory, a storage media device
\* or a storage media image, and not at all otherwise; no call invokes it
\* twice.
C6_PreprocessingCondition ==
  Called =>
    /\ Times("_PreprocessSources") <= 1
    /\ (InTrace("_CreateEngine") /\ frame.pc # "preprocess") =>
         Times("_PreprocessSources") =
           (IF \/ frame.args.force_preprocessing
               \/ frame.source_type \in {"directory", "storage media device",
                                         "storage media image"}
            THEN 1 ELSE 0)

\* A storage media device was preprocessed without being forced.
C6_Witness ==
  /\ frame.pc = "returned"
  /\ frame.source_type = "storage media device"
  /\ ~frame.args.force_preprocessing
  /\ frame.preprocessing = "done"
  /\ Times("_PreprocessSources") = 1

\* The preset the facts of the engine's knowledge base stand for.
PresetOfKnowledgeBase ==
  LET kb == self._engine.knowledge_base
  IN IF kb.osversion = "Windows XP Professional" THEN "winxp"
     ELSE PresetOfGuess(kb.platform)

\* C7: after preprocessing failed with IOError the call never raises
\* IOError; it goes on: a preset derived afterwards is the one of the facts
\* preprocessing left, the call only ends by returning or by an exception of
\* a later step (the rejected filter expression, the engine's dispatch), and
\* when it dispatches it has resolved the expression, set the time zone and
\* created the session before, in that order; it has dispatched whenever it
\* ended without the expression being rejected.
C7_PreprocessingIOErrorAbsorbed ==
  (Called /\ frame.preprocessing = "IOError") =>
    /\ frame.raised # "IOError"
    /\ \E i \in 1..Len(frame.log) :
         frame.log[i] = "error: Unable to preprocess with error: IOError"
    /\ InTrace("_GetParserFilterPreset") =>
         frame.parser_filter_expression = PresetOfKnowledgeBase
    /\ frame.pc = "raised" =>
         \/ /\ frame.raised = "BadConfigOption"
            /\ frame.args.parser_filter_expression = "bad("
            /\ frame.trace[Len(frame.trace)] = "_CreateSession"
         \/ /\ frame.raised \in {"SourceScannerError", "UserAbort"}
            /\ frame.trace[Len(frame.trace)] = "engine.ProcessSources"
    /\ (Ended /\ frame.args.parser_filter_expression # "bad(") =>
         InTrace("engine.ProcessSources")
    /\ InTrace("engine.ProcessSources") =>
         /\ Precedes("_PreprocessSources", "GetParsers")
         /\ Precedes("GetParsers", "_SetTimezone")
         /\ Precedes("_SetTimezone", "_CreateSession")
         /\ Precedes("_CreateSession", "engine.ProcessSources")

\* Preprocessing failed with IOError after it had found Linux; the call
\* derived the preset linux and returned the engine's processing status.
C7_Witness ==
  /\ frame.pc = "returned"
  /\ frame.preprocessing = "IOError"
  /\ self._engine.knowledge_base.platform = "Linux"
  /\ frame.dispatch.parser_filter_expression = "linux"
  /\ frame.result \in ProcessingStatuses

\* The names the parsers manager lists for the presets and for no filter.
ExpectedParserAndPluginNames(expression) ==
  IF expression = "winxp"
  THEN <<"lnk", "prefetch", "winreg", "winreg/appcompatcache">>
  ELSE IF expression = "win7" THEN <<"lnk", "prefetch", "winevtx", "winreg">>
  ELSE IF expression = "linux" THEN <<"syslog", "utmp">>
  ELSE IF expression = "macosx" THEN <<"asl_log", "plist", "plist/airport">>
  ELSE IF expression \in {None, ""} THEN AllParserAndPluginNames
  ELSE <<>>

\* C8: in a dispatched call the session's parser filter expression, the
\* expression of the dispatch call and the expression the session's enabled
\* parser names are listed for are one expression: the caller's when the
\* caller gave one, the preset of the knowledge base's facts otherwise; for
\* a directory without a caller's expression whose knowledge base holds the
\* version "Windows XP Professional", all three are winxp.
C8_OneExpression ==
  (Called /\ frame.dispatch # NoObject) =>
    LET expression == IF frame.args.parser_filter_expression \in {None, ""}
                      THEN PresetOfKnowledgeBase
                      ELSE frame.args.parser_filter_expression
    IN /\ frame.session.parser_filter_expression = expression
       /\ frame.dispatch.parser_filter_expression = expression
       /\ frame.session.enabled_parser_names =
            ExpectedParserAndPluginNames(expression)
       /\ frame.dispatch.storage_writer.session = frame.session
       /\ ( /\ frame.source_type = "directory"
            /\ frame.args.parser_filter_expression = None
            /\ self._engine.knowledge_base.osversion = "Windows XP Professional" )
          => /\ frame.session.parser_filter_expression = "winxp"
             /\ frame.dispatch.parser_filter_expression = "winxp"
             /\ frame.session.enabled_parser_names = ParserPresets.winxp

\* A directory given the empty expression, with Windows XP found by
\* preprocessing, was dispatched with winxp in the session and in the call.
C8_Witness ==
  /\ frame.pc = "returned"
  /\ frame.source_type = "directory"
  /\ frame.args.parser_filter_expression = ""
  /\ frame.preprocessing = "done"
  /\ self._engine.knowledge_base.osversion = "Windows XP Professional"
  /\ frame.session.parser_filter_expression = "winxp"
  /\ frame.dispatch.parser_filter_expression = "winxp"
  /\ frame.session.enabled_parser_names = ParserPresets.winxp

\* C9: with a caller's expression that is not empty no preset is derived,
\* and the expression of the call, of the session and of the dispatch call
\* is the caller's, whatever the knowledge base holds; without one the
\* preset is derived once the call resolves the expression.
C9_CallerExpressionWins ==
  Called =>
    /\ frame.args.parser_filter_expression \notin {None, ""} =>
         /\ ~InTrace("_GetParserFilterPreset")
         /\ frame.parser_filter_expression = frame.args.parser_filter_expression
         /\ frame.session # NoObject =>
              frame.session.parser_filter_expression =
                frame.args.parser_filter_expression
         /\ frame.dispatch # NoObject =>
              frame.dispatch.parser_filter_expression =
                frame.args.parser_filter_expression
    /\ frame.args.parser_filter_expression \in {None, ""} =>
         (InTrace("_GetParserFilterPreset") <=> InTrace("GetParsers"))

\* The caller's expression linux was dispatched though preprocessing had
\* found Windows XP.
C9_Witness ==
  /\ frame.pc = "returned"
  /\ frame.args.parser_filter_expression = "linux"
  /\ frame.preprocessing = "done"
  /\ self._engine.knowledge_base.platform = "Windows"
  /\ self._engine.knowledge_base.osversion = "Windows XP Professional"
  /\ frame.session.parser_filter_expression = "linux"
  /\ frame.dispatch.parser_filter_expression = "linux"

\* C10: the time zone _SetTimezone passes to the knowledge base is the
\* knowledge base's time_zone_str when that is not empty, else the caller's
\* time zone when that is not empty, else UTC.
C10_TimezonePrecedence ==
  (Called /\ InTrace("_SetTimezone")) =>
    LET time_zone_str == self._engine.knowledge_base.time_zone_str
    IN /\ Len(frame.set_timezone) >= 1
       /\ time_zone_str \notin {None, ""} => frame.set_timezone[1] = time_zone_str
       /\ (time_zone_str \in {None, ""} /\ frame.args.timezone \notin {None, ""})
            => frame.set_timezone[1] = frame.args.timezone
       /\ (time_zone_str \in {None, ""} /\ frame.args.timezone \in {None, ""})
            => frame.set_timezone[1] = "UTC"

\* The knowledge base's Asia/Tokyo was set though the caller gave
\* Europe/Oslo.
C10_Witness ==
  /\ Called
  /\ InTrace("_SetTimezone")
  /\ frame.args.timezone = "Europe/Oslo"
  /\ self._engine.knowledge_base.time_zone_str = "Asia/Tokyo"
  /\ frame.set_timezone = <<"Asia/Tokyo">>
  /\ self._engine.knowledge_base.timezone = "Asia/Tokyo"

\* The time zone the call passed to the knowledge base was rejected.
TimezoneRejected ==
  /\ Called
  /\ InTrace("_SetTimezone")
  /\ frame.set_timezone[Len(frame.set_timezone)] \notin SupportedTimezones

\* C11 as claimed: an unsupported time zone falls through to the next one:
\* after _SetTimezone with an unsupported time_zone_str in the knowledge
\* base, the caller's time zone was tried and is the knowledge base's time
\* zone when it is supported, and UTC is when it is not.
C11_UnsupportedFallsThrough ==
  ( /\ Called
    /\ InTrace("_SetTimezone")
    /\ self._engine.knowledge_base.time_zone_str \notin {None, ""}
    /\ self._engine.knowledge_base.time_zone_str \notin SupportedTimezones )
  => self._engine.knowledge_base.timezone =
       (IF frame.args.timezone \in SupportedTimezones
        THEN frame.args.timezone
        ELSE "UTC")

\* C11 as amended: an unsupported time zone does not crash the call and
\* nothing falls through: the one time zone chosen by the precedence is the
\* only one passed to the knowledge base, the rejection is logged as a
\* warning, and the knowledge base's time zone is the new engine's UTC,
\* whatever the caller's time zone is.
C11_UnsupportedNoFallThrough ==
  (Called /\ InTrace("_SetTimezone")) =>
    LET kb == self._engine.knowledge_base
        chosen == IF kb.time_zone_str \notin {None, ""} THEN kb.time_zone_str
                  ELSE IF frame.args.timezone \notin {None, ""}
                  THEN frame.args.timezone
                  ELSE "UTC"
    IN /\ frame.set_timezone = <<chosen>>
       /\ frame.raised # "ValueError"
       /\ chosen \in SupportedTimezones => kb.timezone = chosen
       /\ chosen \notin SupportedTimezones =>
            /\ kb.timezone = "UTC"
            /\ \E i \in 1..Len(frame.log) :
                 frame.log[i] = "warning: Unsupported time zone: " \o chosen
                                  \o ", defaulting to UTC"

\* The knowledge base's Mars/Olympus was rejected; the caller's Europe/Oslo
\* was not tried and the time zone stayed UTC.
C11_Witness ==
  /\ frame.pc = "returned"
  /\ self._engine.knowledge_base.time_zone_str = "Mars/Olympus"
  /\ frame.args.timezone = "Europe/Oslo"
  /\ frame.set_timezone = <<"Mars/Olympus">>
  /\ self._engine.knowledge_base.timezone = "UTC"

\* C12: a rejected time zone never leaves ProcessSources as an exception:
\* the step that passes it leaves the engine's knowledge base as it was,
\* passes no second time zone and goes on to the find specifications; the
\* call ends only by returning or by an exception of a later step, and it
\* has dispatched whenever it ended without the filter expression being
\* rejected.
C12_TimezoneRejectionAbsorbed ==
  /\ [](TimezoneRejected =>
          /\ frame.raised # "ValueError"
          /\ Len(frame.set_timezone) = 1
          /\ Times("_SetTimezone") = 1
          /\ frame.pc = "raised" =>
               \/ /\ frame.raised = "BadConfigOption"
                  /\ frame.trace[Len(frame.trace)] = "_CreateSession"
               \/ /\ frame.raised \in {"SourceScannerError", "UserAbort"}
                  /\ frame.trace[Len(frame.trace)] = "engine.ProcessSources"
          /\ (Ended /\ frame.args.parser_filter_expression # "bad(") =>
               /\ InTrace("engine.ProcessSources")
               /\ frame.dispatch # NoObject)
  /\ [][(frame.pc = "timezone" /\ TimezoneRejected') =>
          /\ self'._engine.knowledge_base = self._engine.knowledge_base
          /\ frame'.pc = "find_specs"]_vars

\* The caller's Mars/Olympus was rejected and the call returned the
\* engine's processing status with the time zone still UTC.
C12_Witness ==
  /\ frame.pc = "returned"
  /\ self._engine.knowledge_base.time_zone_str = None
  /\ frame.args.timezone = "Mars/Olympus"
  /\ frame.set_timezone = <<"Mars/Olympus">>
  /\ self._engine.knowledge_base.timezone = "UTC"
  /\ frame.dispatch # NoObject
  /\ frame.result \in ProcessingStatuses

\* The call went on after an error it absorbed: the IOError of
\* preprocessing or a rejected time zone.
Degraded == frame.preprocessing = "IOError" \/ TimezoneRejected

\* C13: a call that returned has returned what the engine's ProcessSources
\* returned, a processing status, after one dispatch; a call that went on
\* after the IOError of preprocessing or a rejected time zone and whose
\* engine returned a processing status ends by returning that status.
C13_ResultPassedThrough ==
  Called =>
    /\ frame.pc = "returned" =>
         /\ frame.result = frame.engine_outcome
         /\ frame.result \in {"ProcessingStatus: completed",
                              "ProcessingStatus: aborted"}
         /\ Times("engine.ProcessSources") = 1
    /\ (Ended /\ Degraded /\ frame.engine_outcome \in ProcessingStatuses) =>
         /\ frame.pc = "returned"
         /\ frame.raised = None
         /\ frame.result = frame.engine_outcome

\* Preprocessing failed with IOError, the time zone it had found was
\* rejected, and the call returned the engine's status "aborted".
C13_Witness ==
  /\ frame.pc = "returned"
  /\ frame.preprocessing = "IOError"
  /\ frame.set_timezone = <<"Mars/Olympus">>
  /\ frame.engine_outcome = "ProcessingStatus: aborted"
  /\ frame.result = "ProcessingStatus: aborted"

\* C14: when the engine's ProcessSources raises SourceScannerError or
\* UserAbort, the call ends raising that exception: it returns no processing
\* status, it has dispatched once, and the dispatch was its last step.
C14_DispatchErrorPropagates ==
  (Called /\ frame.engine_outcome \in {"SourceScannerError", "UserAbort"}) =>
    /\ frame.pc = "raised"
    /\ frame.raised = frame.engine_outcome
    /\ frame.result = None
    /\ frame.processing_status = None
    /\ Times("engine.ProcessSources") = 1
    /\ frame.trace[Len(frame.trace)] = "engine.ProcessSources"

\* The engine raised UserAbort and so did the call.
C14_Witness ==
  /\ Called
  /\ frame.engine_outcome = "UserAbort"
  /\ frame.pc = "raised"
  /\ frame.raised = "UserAbort"
  /\ frame.result = None

\* The call built its session with an expression the parsers manager rejects.
ExpressionRejected ==
  /\ Called
  /\ InTrace("_CreateSession")
  /\ frame.parser_filter_expression = "bad("

\* C15: a call whose filter expression the parsers manager rejects ends
\* raising BadConfigOption from _CreateSession, its last step: there is no
\* session, no storage writer was constructed, the engine's ProcessSources
\* was not called and nothing is returned; a call given that expression
\* never has a storage writer or a dispatch call.
C15_FilterRejectionPropagates ==
  /\ ExpressionRejected =>
       /\ frame.pc = "raised"
       /\ frame.raised = "BadConfigOption"
       /\ frame.trace[Len(frame.trace)] = "_CreateSession"
       /\ frame.session = NoObject
       /\ frame.storage_writer = NoObject
       /\ ~InTrace("ZIPStorageFileWriter")
       /\ frame.dispatch = NoObject
       /\ ~InTrace("engine.ProcessSources")
       /\ frame.engine_outcome = None
       /\ frame.result = None
  /\ (Called /\ frame.args.parser_filter_expression = "bad(") =>
       /\ frame.storage_writer = NoObject
       /\ frame.dispatch = NoObject

\* The caller's malformed expression was rejected when the session was
\* built for a usable storage file.
C15_Witness ==
  /\ ExpressionRejected
  /\ self._storage_file_path = "out.plaso"
  /\ frame.pc = "raised"
  /\ frame.raised = "BadConfigOption"
  /\ frame.storage_writer = NoObject
  /\ frame.dispatch = NoObject

\* C16 as claimed: a call that ended with a configuration error has
\* created no engine and invoked no engine operation: no preprocessing, no
\* time zone setting, no dispatch.
C16_ConfigurationErrorBeforeEngine ==
  (Called /\ frame.pc = "raised" /\ frame.raised = "BadConfigOption") =>
    /\ self._engine = NoObject
    /\ ~InTrace("_CreateEngine")
    /\ frame.preprocessing = "not invoked"
    /\ frame.set_timezone = <<>>
    /\ frame.dispatch = NoObject

\* C16 as amended: a call with an unusable storage file ends in its first
\* step, with no engine created and no engine operation invoked; a call
\* whose filter expression is rejected ends when the session is built: the
\* engine has been created, preprocessing was invoked when it was required
\* and the time zone was set in the knowledge base once, but no storage
\* writer was constructed and the engine's ProcessSources was not called.
C16_ConfigurationErrorPoints ==
  /\ (Called /\ StorageFileUnusable) =>
       /\ self._engine = NoObject
       /\ frame.trace = <<"_CheckStorageFile">>
  /\ (Called /\ frame.pc = "raised" /\ frame.raised = "BadConfigOption") =>
       \/ /\ frame.trace = <<"_CheckStorageFile">>
          /\ self._engine = NoObject
          /\ frame.preprocessing = "not invoked"
          /\ frame.set_timezone = <<>>
          /\ frame.dispatch = NoObject
       \/ /\ frame.trace[Len(frame.trace)] = "_CreateSession"
          /\ frame.parser_filter_expression = "bad("
          /\ self._engine # NoObject
          /\ Precedes("_CreateEngine", "_CreateSession")
          /\ Precedes("_SetTimezone", "_CreateSession")
          /\ Len(frame.set_timezone) = 1
          /\ frame.preprocessing # "not invoked" <=>
               \/ frame.args.force_preprocessing
               \/ frame.source_type \in {"directory", "storage media device",
                                         "storage media image"}
          /\ frame.storage_writer = NoObject
          /\ frame.dispatch = NoObject

\* The malformed expression of a directory was rejected after the engine
\* had been created, had preprocessed and had its time zone set.
C16_Witness ==
  /\ ExpressionRejected
  /\ frame.pc = "raised"
  /\ frame.raised = "BadConfigOption"
  /\ frame.source_type = "directory"
  /\ self._engine.class = "MultiProcessEngine"
  /\ frame.preprocessing = "done"
  /\ frame.set_timezone = <<"UTC">>

\* The configuration attributes of the front-end object.
Configuration(obj) ==
  <<obj._debug_mode, obj._show_worker_memory_information,
    obj._storage_file_path, obj._text_prepend, obj._use_zeromq,
    obj._enable_profiling, obj._profiling_directory,
    obj._profiling_sample_rate, obj._profiling_type>>

\* The attributes no configuration call sets.
NotConfiguration(obj) ==
  <<obj._engine, obj._collection_process, obj._filter_expression,
    obj._filter_object, obj._hasher_names, obj._mount_path,
    obj._parser_names>>

\* C17: before the ProcessSources call there is no engine, and a
\* configuration call changes nothing but configuration attributes; the
\* call checks the storage file path set last (a call with "out.plaso"
\* passes the check, a call with the directory "cases" or with no path
\* raises in it, a storage writer is constructed on the path set last); the
\* engine it creates carries the debug flag, the profiling flag, directory,
\* sample rate and type set last, and the transport flag set last exactly
\* when it is the multi process engine; the steps of the call change no
\* configuration attribute.
C17_ConfigurationConsumed ==
  /\ [](/\ ~Called => self._engine = NoObject
        /\ Called =>
             /\ fn.storage_file_path = "out.plaso" =>
                  ~(frame.pc = "raised" /\ frame.trace = <<"_CheckStorageFile">>)
             /\ fn.storage_file_path \in {None, "cases"} =>
                  (frame.pc = "raised" /\ frame.trace = <<"_CheckStorageFile">>)
             /\ frame.storage_writer # NoObject =>
                  frame.storage_writer.path = fn.storage_file_path
        /\ (Called /\ InTrace("_CreateEngine")) =>
             /\ self._engine.debug_output = fn.enable_debug
             /\ self._engine.enable_profiling = fn.profiling
             /\ self._engine.profiling_directory = fn.profiling_directory
             /\ self._engine.profiling_sample_rate = fn.profiling_sample_rate
             /\ self._engine.profiling_type = fn.profiling_type
             /\ self._engine.class = "MultiProcessEngine" =>
                  self._engine.use_zeromq = fn.use_zeromq
             /\ self._engine.class = "SingleProcessEngine" =>
                  "use_zeromq" \notin DOMAIN self._engine)
  /\ [][(frame.pc = "idle" /\ frame'.pc = "idle") =>
          /\ NotConfiguration(self') = NotConfiguration(self)
          /\ fs' = fs]_vars
  /\ [][frame'.pc # "idle" =>
          /\ Configuration(self') = Configuration(self)
          /\ fn' = fn]_vars

\* Debug mode was switched on and off again, profiling was enabled into
\* "prof" at rate 250 for memory, the transport was switched off, and the
\* single process engine of a file carries exactly that and no transport
\* flag.
C17_Witness ==
  /\ frame.pc = "returned"
  /\ frame.source_type = "file"
  /\ fn.enable_debug = FALSE
  /\ fn.show_memory = TRUE
  /\ fn.text_prepend = "case 7: "
  /\ fn.use_zeromq = FALSE
  /\ fn.profiling = TRUE
  /\ fn.profiling_directory = "prof"
  /\ fn.profiling_sample_rate = 250
  /\ fn.profiling_type = "memory"
  /\ self._engine.class = "SingleProcessEngine"
  /\ self._engine.enable_profiling = TRUE
  /\ self._engine.profiling_sample_rate = 250
  /\ self._engine.profiling_type = "memory"
  /\ "use_zeromq" \notin DOMAIN self._engine
  /\ frame.dispatch.text_prepend = "case 7: "

\* The calls a successful ProcessSources call makes, in order, given its
\* arguments.
ExpectedSteps ==
  <<"_CheckStorageFile", "_CreateEngine">>
    \o (IF \/ frame.args.force_preprocessing
           \/ frame.source_type \in {"directory", "storage media device",
                                     "storage media image"}
        THEN <<"_PreprocessSources">> ELSE <<>>)
    \o (IF frame.args.parser_filter_expression \in {None, ""}
        THEN <<"_GetParserFilterPreset">> ELSE <<>>)
    \o <<"GetParsers", "GetHasherNamesFromString", "_SetTimezone">>
    \o (IF frame.args.filter_file \in {None, ""}
        THEN <<>> ELSE <<"BuildFindSpecsFromFile">>)
    \o <<"_CreateSession", "ZIPStorageFileWriter", "engine.ProcessSources">>

\* The order of the positions of a call.
StepOrder ==
  {<<"idle", "create_engine">>, <<"create_engine", "preprocess">>,
   <<"preprocess", "resolve">>, <<"resolve", "timezone">>,
   <<"timezone", "find_specs">>, <<"find_specs", "session">>,
   <<"session", "storage_writer">>, <<"storage_writer", "dispatch">>,
   <<"dispatch", "return">>, <<"return", "returned">>}

\* The facts preprocessing leaves in the knowledge base.
Facts(kb) == <<kb.platform, kb.osversion, kb.time_zone_str>>

\* C18: a call goes through its positions in one order: check, engine,
\* preprocessing or not, expression, time zone, find specifications,
\* session, storage writer, dispatch, return, leaving that order only by
\* raising; what it has called so far is the beginning of the calls its
\* arguments stand for, each once, and all of them when it returned:
\* preprocessing exactly when required and then before the parsers are
\* listed and the time zone is set, _CreateSession before the engine's
\* ProcessSources; once preprocessing is over no step changes the facts of
\* the knowledge base.
C18_StepOrder ==
  /\ [](Called =>
          /\ Len(frame.trace) <= Len(ExpectedSteps)
          /\ frame.trace = SubSeq(ExpectedSteps, 1, Len(frame.trace))
          /\ frame.pc = "returned" =>
               /\ frame.trace = ExpectedSteps
               /\ InTrace("_PreprocessSources") =>
                    /\ Precedes("_PreprocessSources", "GetParsers")
                    /\ Precedes("_PreprocessSources", "_SetTimezone")
               /\ InTrace("_GetParserFilterPreset") /\ InTrace("_PreprocessSources")
                    => Precedes("_PreprocessSources", "_GetParserFilterPreset")
               /\ Precedes("_CreateSession", "engine.ProcessSources"))
  /\ [][frame'.pc # frame.pc =>
          \/ <<frame.pc, frame'.pc>> \in StepOrder
          \/ frame'.pc = "raised"]_vars
  /\ [][frame.pc \in {"resolve", "timezone", "find_specs", "session",
                      "storage_writer", "dispatch", "return"} =>
          Facts(self'._engine.knowledge_base) = Facts(self._engine.knowledge_base)]_vars

\* A directory with a filter file was processed in all eleven calls.
C18_Witness ==
  /\ frame.pc = "returned"
  /\ frame.source_type = "directory"
  /\ frame.args.filter_file = "filter.txt"
  /\ frame.preprocessing = "done"
  /\ frame.trace =
       <<"_CheckStorageFile", "_CreateEngine", "_PreprocessSources",
         "_GetParserFilterPreset", "GetParsers", "GetHasherNamesFromString",
         "_SetTimezone", "BuildFindSpecsFromFile", "_CreateSession",
         "ZIPStorageFileWriter", "engine.ProcessSources">>

\* The call made in the step just taken.
LastStep(f) == f.trace[Len(f.trace)]

\* The knowledge base of the engine changed in the step.
KnowledgeBaseChanged ==
  /\ self._engine # NoObject
  /\ self'._engine.knowledge_base # self._engine.knowledge_base

\* C19 as claimed: the knowledge base only changes inside an operation of
\* the engine, that is in a step in which the front-end calls the engine's
\* PreprocessSources or ProcessSources; no step of the front-end's own
\* changes it.
C19_OnlyEngineWrites ==
  [][KnowledgeBaseChanged =>
       LastStep(frame') \in {"_PreprocessSources", "engine.ProcessSources"}]_vars

\* C19 as amended: the facts of the knowledge base (platform, version,
\* time_zone_str) only change in the step that calls the engine's
\* PreprocessSources, which leaves the time zone alone; the time zone only
\* changes in the front-end's own _SetTimezone step, which calls the
\* knowledge base's SetTimezone and leaves the facts alone; every other
\* step of the front-end leaves the knowledge base as it is.
C19_WritesByStep ==
  [][KnowledgeBaseChanged =>
       \/ /\ LastStep(frame') = "_PreprocessSources"
          /\ frame.pc = "preprocess"
          /\ self'._engine.knowledge_base.timezone =
               self._engine.knowledge_base.timezone
       \/ /\ LastStep(frame') = "_SetTimezone"
          /\ frame.pc = "timezone"
          /\ Facts(self'._engine.knowledge_base) =
               Facts(self._engine.knowledge_base)
          /\ self'._engine.knowledge_base.timezone = frame'.set_timezone[1]]_vars

\* The front-end's _SetTimezone step has just changed the time zone of the
\* knowledge base from UTC to the Asia/Tokyo preprocessing had found.
C19_Witness ==
  /\ frame.pc = "find_specs"
  /\ LastStep(frame) = "_SetTimezone"
  /\ frame.preprocessing = "done"
  /\ self._engine.knowledge_base.time_zone_str = "Asia/Tokyo"
  /\ self._engine.knowledge_base.timezone = "Asia/Tokyo"

\* C20: when the engine's PreprocessSources raises an exception that is not
\* IOError, the call ends raising that exception, preprocessing being its
\* last step: no preset is derived, no parsers are listed, no time zone is
\* set, no session and no storage writer exist and the engine's
\* ProcessSources is not called; when it raises IOError the call does not
\* end there.
C20_OnlyIOErrorAbsorbed ==
  Called =>
    /\ frame.preprocessing \notin {"not invoked", "done", "IOError"} =>
         /\ frame.pc = "raised"
         /\ frame.raised = frame.preprocessing
         /\ frame.trace =
              <<"_CheckStorageFile", "_CreateEngine", "_PreprocessSources">>
         /\ frame.parser_filter_expression = frame.args.parser_filter_expression
         /\ frame.set_timezone = <<>>
         /\ frame.session = NoObject
         /\ frame.storage_writer = NoObject
         /\ frame.dispatch = NoObject
         /\ frame.engine_outcome = None
         /\ frame.result = None
    /\ (frame.preprocessing = "IOError" /\ LastStep(frame) = "_PreprocessSources")
         => (frame.pc = "resolve" /\ frame.raised = None)

\* Forced preprocessing of a file raised RuntimeError and so did the call.
C20_Witness ==
  /\ Called
  /\ frame.source_type = "file"
  /\ frame.args.force_preprocessing
  /\ frame.preprocessing = "RuntimeError"
  /\ frame.pc = "raised"
  /\ frame.raised = "RuntimeError"
  /\ frame.session = NoObject
====
